---- MODULE Spec2Model ----
(***************************************************************************)
(* The multi-account store of flyctl: internal/config/accounts.go (the     *)
(* AccountsFile value, its operations and its locked load/save) and the    *)
(* auth commands that drive it.                                            *)
(*                                                                         *)
(* Strings are modelled by strings ("" is Go's empty string), time.Time by *)
(* a natural number (0 is the zero time, IsZero), a Go slice by a sequence *)
(* (index 1 is Go's index 0) and a nil error by "".                        *)
(***************************************************************************)
EXTENDS Naturals, Sequences, FiniteSets, TLC

\* ------------------------------------------------------------------ bounds
NumEmails == 2

MaxAccounts == 2

\* ----------------------------------------------------------------- domains
EmailNames == <<"user1@example.com", "user2@example.com", "user3@example.com", "user4@example.com">>

\* The Email values of the model: the empty string and NumEmails addresses.
Emails == {""} \cup {EmailNames[i] : i \in 1..NumEmails}

AccessTokens == {"token1", "token2"}

MetricsTokens == {"", "metrics1"}

LastLogins == {0, 1}

Account == [Email : Emails, AccessToken : AccessTokens, MetricsToken : MetricsTokens, LastLogin : LastLogins]

\* Account{}: the zero value of the struct.
ZeroAccount == [Email |-> "", AccessToken |-> "", MetricsToken |-> "", LastLogin |-> 0]

\* &AccountsFile{}: the zero value of the struct.
EmptyAccountsFile == [Active |-> "", Accounts |-> <<>>]

ErrNoAccounts == "no accounts configured"

ErrAccountNotFound == "account not found"

\* The accounts the store specifications pass and hold. The store methods
\* read no field but Email and copy the others as a whole, so one value of
\* LastLogin (set, as a login sets it) is kept here; the persistence
\* specification draws from all of Account.
LoggedIn == {a \in Account : a.LastLogin = 1}

\* Every AccountsFile value over the accounts of S within the bounds, whatever
\* wrote it: duplicate emails and an Active that names no entry included.
AccountsFilesOver(S) ==
    [Active : Emails, Accounts : UNION {[1..k -> S] : k \in 0..MaxAccounts}]

\* ------------------------------------------------------------ persistence
NumProcs == 2

\* The processes (CLI invocations) that share one config directory.
Procs == 1..NumProcs

\* The accounts the persistence specification saves: every combination of the
\* fields the document encodes, under one email.
Persisted == {a \in Account : a.Email = EmailNames[1]}

\* The errors of the persistence layer, by kind.
ErrNotExist == "file does not exist"

ErrLock == "lock not acquired"

ErrIO == "i/o error"

ErrDecode == "yaml: unmarshal error"

ErrUnlock == "unlock failed"

ErrMarshal == "yaml: marshal failed"

\* The state of <configDir>/accounts.yml: no file, a YAML document, or bytes
\* that do not decode (edited by hand, or emptied by a write that has not
\* written its data).
NoFile == [absent |-> TRUE]

Malformed == [malformed |-> TRUE]

Truncated == [truncated |-> TRUE]

\* time.Time <-> the timestamp scalar of the document.
TimeText == <<"2025-01-01T10:00:00Z", "2025-01-02T10:00:00Z", "2025-01-03T10:00:00Z">>

FormatTime(t) == TimeText[t]

ParseTime(text) == CHOOSE t \in 1..Len(TimeText) : TimeText[t] = text

\* Mutant: the omitempty test of last_login also reads MetricsToken.
MarshalAccount_OmitsLastLoginWithMetrics(a) ==
    LET keys == {"email", "access_token"}
                \cup (IF a.MetricsToken # "" THEN {"metrics_token"} ELSE {})
                \cup (IF a.MetricsToken # "" /\ a.LastLogin # 0 THEN {"last_login"} ELSE {})
    IN [k \in keys |->
          CASE k = "email" -> a.Email
            [] k = "access_token" -> a.AccessToken
            [] k = "metrics_token" -> a.MetricsToken
            [] k = "last_login" -> FormatTime(a.LastLogin)]

\* yaml.Marshal of an Account by its struct tags: email and access_token
\* always, metrics_token and last_login left out when empty or zero.
MarshalAccount(a) ==
    LET keys == {"email", "access_token"}
                \cup (IF a.MetricsToken # "" THEN {"metrics_token"} ELSE {})
                \cup (IF a.LastLogin # 0 THEN {"last_login"} ELSE {})
    IN [k \in keys |->
          CASE k = "email" -> a.Email
            [] k = "access_token" -> a.AccessToken
            [] k = "metrics_token" -> a.MetricsToken
            [] k = "last_login" -> FormatTime(a.LastLogin)]

\* yaml.Marshal of an AccountsFile: the document with its two keys.
Marshal(s) ==
    [active |-> s.Active,
     accounts |-> [i \in 1..Len(s.Accounts) |-> MarshalAccount(s.Accounts[i])]]

\* Decoding a mapping into an Account: a key that is absent leaves the
\* field at its zero value.
UnmarshalAccount(node) ==
    [Email |-> IF "email" \in DOMAIN node THEN node["email"] ELSE "",
     AccessToken |-> IF "access_token" \in DOMAIN node THEN node["access_token"] ELSE "",
     MetricsToken |-> IF "metrics_token" \in DOMAIN node THEN node["metrics_token"] ELSE "",
     LastLogin |-> IF "last_login" \in DOMAIN node THEN ParseTime(node["last_login"]) ELSE 0]

\* yaml.NewDecoder(f).Decode(&af) into the zero AccountsFile.
Unmarshal(doc) ==
    [Active |-> IF "active" \in DOMAIN doc THEN doc["active"] ELSE "",
     Accounts |-> IF "accounts" \in DOMAIN doc
                  THEN [i \in 1..Len(doc["accounts"]) |-> UnmarshalAccount(doc["accounts"][i])]
                  ELSE <<>>]

\* The document as far as a write that is under way may have come: its first
\* key.
Prefix(doc) == [active |-> doc["active"]]

\* A document edited by hand: the active key dropped, the optional keys
\* of its one account absent.
HandEdited ==
    [accounts |-> <<[email |-> EmailNames[1], access_token |-> "token1"]>>]

\* The nil *AccountsFile.
Nil == [nil |-> TRUE]

\* Mutant: the missing file is passed on as an error.
LoadAccountsResult_NotExistIsError(e, v) ==
    IF e # "" THEN [err |-> e, af |-> Nil] ELSE [err |-> "", af |-> v]

\* Mutant: every error of unmarshalAccounts is taken for a missing file.
LoadAccountsResult_AbsorbsAll(e, v) ==
    IF e # "" THEN [err |-> "", af |-> EmptyAccountsFile] ELSE [err |-> "", af |-> v]

\* What LoadAccounts returns for the error e and the value v that
\* unmarshalAccounts left: a missing file is an empty AccountsFile.
LoadAccountsResult(e, v) ==
    IF e # ""
    THEN IF e = ErrNotExist
         THEN [err |-> "", af |-> EmptyAccountsFile]
         ELSE [err |-> e, af |-> Nil]
    ELSE [err |-> "", af |-> v]

\* ------------------------------------------------ legacy config, commands
\* The accounts the tests store: user1 with a metrics token and a last login,
\* user2 with neither, and so on in turn.
StoredAccount(i) ==
    [Email |-> EmailNames[i],
     AccessToken |-> IF i % 2 = 1 THEN "token1" ELSE "token2",
     MetricsToken |-> IF i % 2 = 1 THEN "metrics1" ELSE "",
     LastLogin |-> IF i % 2 = 1 THEN 1 ELSE 0]

StoredAccounts == {StoredAccount(i) : i \in 1..NumEmails}

\* config.yml, by the three keys the setters write: all empty once cleared.
Cleared == [AccessToken |-> "", MetricsToken |-> "", LastLogin |-> 0]

\* The credentials of an account, as config.yml holds them.
Credentials(account) ==
    [AccessToken |-> account.AccessToken,
     MetricsToken |-> account.MetricsToken,
     LastLogin |-> account.LastLogin]

\* SetAccessToken, SetMetricsToken, SetLastLogin: each writes its one key.
Set(c, setter, account) ==
    CASE setter = "SetAccessToken" -> [c EXCEPT !.AccessToken = account.AccessToken]
      [] setter = "SetMetricsToken" -> [c EXCEPT !.MetricsToken = account.MetricsToken]
      [] setter = "SetLastLogin" -> [c EXCEPT !.LastLogin = account.LastLogin]

RECURSIVE ApplySetters(_, _, _)
ApplySetters(c, setters, account) ==
    IF setters = <<>> THEN c
    ELSE ApplySetters(Set(c, Head(setters), account), Tail(setters), account)

\* The setters SyncActiveAccountToConfig reaches for account, in its order.
Setters(account) ==
    <<"SetAccessToken">>
    \o (IF account.MetricsToken # "" THEN <<"SetMetricsToken">> ELSE <<>>)
    \o (IF account.LastLogin # 0 THEN <<"SetLastLogin">> ELSE <<>>)

ErrSetter == "config not written"

\* Mutant: a setter that fails is passed over and the later ones still run.
SyncSetters_GoesOn(c, account, failAt) ==
    LET due == Setters(account)
        fails == failAt \in 1..Len(due)
        applied == IF fails THEN SubSeq(due, 1, failAt - 1) \o SubSeq(due, failAt + 1, Len(due)) ELSE due
    IN [config |-> ApplySetters(c, applied, account),
        calls |-> due,
        err |-> IF fails THEN ErrSetter ELSE ""]

\* The setter calls of SyncActiveAccountToConfig on config c, the failAt-th of
\* them failing (none when there is no such call): the calls made, the config
\* they leave and the error returned.
SyncSetters(c, account, failAt) ==
    LET due == Setters(account)
        fails == failAt \in 1..Len(due)
        calls == IF fails THEN SubSeq(due, 1, failAt) ELSE due
        applied == IF fails THEN SubSeq(due, 1, failAt - 1) ELSE due
    IN [config |-> ApplySetters(c, applied, account),
        calls |-> calls,
        err |-> IF fails THEN ErrSetter ELSE ""]

\* The errors the commands return.
ErrLoadFailed == "failed to load accounts"

ErrNoAccountsConfigured == "no accounts configured (command)"

ErrNotFoundByCommand == "account not found (command)"

ErrSaveFailed == "failed to save accounts"

ErrSyncFailed == "failed to sync account config"

ErrClearFailed == "failed to clear config"

ErrStopAgent == "failed stopping agent"

\* A process that runs no command. name, email: the command and its email
\* argument; phase: idle, load, save, sync, synced, clear, done; wasActive, account: the
\* locals of runRemove; saving: SaveAccounts has been reached; err: the error
\* returned; calls, from: the setters the sync called and the account it read
\* them from; active: the email GetActiveAccount gave on the loaded store;
\* fresh: no SaveAccounts had written the file when the loaded store was taken
\* up.
NoCmd ==
    [name |-> "none", email |-> "", phase |-> "idle", wasActive |-> FALSE,
     account |-> ZeroAccount, saving |-> FALSE, err |-> "", calls |-> <<>>,
     from |-> ZeroAccount, active |-> "", fresh |-> FALSE]

\* -------------------------------------------------------------------- state
\* af, call, hist: the AccountsFile value the store specifications drive, the
\* last call on it and the history of the calls.
\* file: the accounts file; rlock, wlock: the processes holding the lock file
\* shared and exclusive; pc, mem, loc, ret: per process, the step it is at,
\* the AccountsFile it holds, the locals of the load or save in progress and
\* the result of the one that returned last; written: the AccountsFile whose
\* document the last successful write put in the file; torn: whether the file
\* holds what a write that failed midway left.
\* cmd: per process, the auth command it runs and how far it has come;
\* config: the legacy single-account config (config.yml); expired: the
\* processes whose command context is past its deadline; file0: the accounts
\* file as it was at first.
VARIABLES af, call, hist, file, rlock, wlock, pc, mem, loc, ret, written, torn,
          cmd, config, expired, file0

vars == <<af, call, hist, file, rlock, wlock, pc, mem, loc, ret, written, torn,
          cmd, config, expired, file0>>

storeVars == <<af, call, hist>>

diskVars == <<file, rlock, wlock, pc, mem, loc, ret, written, torn>>

cmdVars == <<cmd, config, expired, file0>>

\* absent: whether the accounts file was missing when the call reached the
\* lock file.
NoLocals == [err |-> "", af |-> EmptyAccountsFile, absent |-> FALSE]

NoResult == [op |-> "none", err |-> "", af |-> Nil, absent |-> FALSE]

NothingWritten == [nothing |-> TRUE]

DiskIdle ==
    /\ file = NoFile
    /\ rlock = {}
    /\ wlock = {}
    /\ pc = [p \in Procs |-> "idle"]
    /\ mem = [p \in Procs |-> EmptyAccountsFile]
    /\ loc = [p \in Procs |-> NoLocals]
    /\ ret = [p \in Procs |-> NoResult]
    /\ written = NothingWritten
    /\ torn = FALSE

CmdIdle ==
    /\ cmd = [p \in Procs |-> NoCmd]
    /\ config = Cleared
    /\ expired = {}
    /\ file0 = file

\* ----------------------------------------------- AccountsFile (pure methods)
AccountCount(s) == Len(s.Accounts)

HasAccounts(s) == Len(s.Accounts) > 0

\* The loop `for i := range af.Accounts { if af.Accounts[i].Email == email`:
\* the first index whose Email is email, 0 when the loop ends without one.
IndexOf(accounts, email) ==
    IF \E i \in 1..Len(accounts) : accounts[i].Email = email
    THEN CHOOSE i \in 1..Len(accounts) :
            /\ accounts[i].Email = email
            /\ \A j \in 1..(i - 1) : accounts[j].Email # email
    ELSE 0

\* idx is the index the returned pointer refers to (0 for nil).
GetAccount(s, email) ==
    LET i == IndexOf(s.Accounts, email)
    IN IF i # 0 THEN [err |-> "", idx |-> i] ELSE [err |-> ErrAccountNotFound, idx |-> 0]

\* Mutant: no fallback to the first entry when Active names no entry.
GetActiveAccount_NoFallback(s) ==
    IF Len(s.Accounts) = 0 THEN [err |-> ErrNoAccounts, idx |-> 0]
    ELSE IF s.Active = "" /\ Len(s.Accounts) > 0 THEN [err |-> "", idx |-> 1]
    ELSE IF IndexOf(s.Accounts, s.Active) # 0
         THEN [err |-> "", idx |-> IndexOf(s.Accounts, s.Active)]
    ELSE [err |-> ErrNoAccounts, idx |-> 0]

GetActiveAccount(s) ==
    IF Len(s.Accounts) = 0 THEN [err |-> ErrNoAccounts, idx |-> 0]
    ELSE IF s.Active = "" /\ Len(s.Accounts) > 0 THEN [err |-> "", idx |-> 1]
    ELSE IF IndexOf(s.Accounts, s.Active) # 0
         THEN [err |-> "", idx |-> IndexOf(s.Accounts, s.Active)]
    ELSE IF Len(s.Accounts) > 0 THEN [err |-> "", idx |-> 1]
    ELSE [err |-> ErrNoAccounts, idx |-> 0]

\* Mutant: an update replaces the entry and leaves Active alone.
AddOrUpdateAccount_UpdateKeepsActive(s, account) ==
    LET i == IndexOf(s.Accounts, account.Email)
    IN IF i # 0
       THEN [Active |-> s.Active, Accounts |-> [s.Accounts EXCEPT ![i] = account]]
       ELSE [Active |-> account.Email, Accounts |-> Append(s.Accounts, account)]

\* Mutant: the lookup is skipped and the account always appended.
AddOrUpdateAccount_AlwaysAppends(s, account) ==
    [Active |-> account.Email, Accounts |-> Append(s.Accounts, account)]

\* Mutant: only the active entry is looked up for replacement.
AddOrUpdateAccount_MatchesActiveOnly(s, account) ==
    LET i == IndexOf(s.Accounts, account.Email)
    IN IF i # 0 /\ s.Active = account.Email
       THEN [Active |-> account.Email, Accounts |-> [s.Accounts EXCEPT ![i] = account]]
       ELSE [Active |-> account.Email, Accounts |-> Append(s.Accounts, account)]

\* Mutant: an entry that is updated moves to the end.
AddOrUpdateAccount_MovesToEnd(s, account) ==
    LET i == IndexOf(s.Accounts, account.Email)
    IN IF i # 0
       THEN [Active |-> account.Email,
             Accounts |-> Append([j \in 1..(Len(s.Accounts) - 1) |->
                                     IF j < i THEN s.Accounts[j] ELSE s.Accounts[j + 1]], account)]
       ELSE [Active |-> account.Email, Accounts |-> Append(s.Accounts, account)]

AddOrUpdateAccount(s, account) ==
    LET i == IndexOf(s.Accounts, account.Email)
    IN IF i # 0
       THEN [Active |-> account.Email, Accounts |-> [s.Accounts EXCEPT ![i] = account]]
       ELSE [Active |-> account.Email, Accounts |-> Append(s.Accounts, account)]

\* Mutant: the last entry is moved into the place of the removed one.
RemoveAt_SwapsLast(accounts, idx) ==
    [j \in 1..(Len(accounts) - 1) |-> IF j = idx THEN accounts[Len(accounts)] ELSE accounts[j]]

\* append(a[:idx], a[idx+1:]...)
RemoveAt(accounts, idx) ==
    [j \in 1..(Len(accounts) - 1) |-> IF j < idx THEN accounts[j] ELSE accounts[j + 1]]

\* Mutant: Active is cleared only by the else branch that is missing here.
RemoveAccount_NoClear(s, email) ==
    LET idx == IndexOf(s.Accounts, email)
        rest == RemoveAt(s.Accounts, idx)
    IN IF idx = 0 THEN [af |-> s, err |-> ErrAccountNotFound]
       ELSE IF s.Active = email /\ Len(rest) > 0
            THEN [af |-> [Active |-> rest[1].Email, Accounts |-> rest], err |-> ""]
            ELSE [af |-> [Active |-> s.Active, Accounts |-> rest], err |-> ""]

\* Mutant: the new Active is read before the entry is removed.
RemoveAccount_SwitchBeforeRemove(s, email) ==
    LET idx == IndexOf(s.Accounts, email)
        rest == RemoveAt(s.Accounts, idx)
    IN IF idx = 0 THEN [af |-> s, err |-> ErrAccountNotFound]
       ELSE IF s.Active = email
            THEN [af |-> [Active |-> s.Accounts[1].Email, Accounts |-> rest], err |-> ""]
            ELSE [af |-> [Active |-> s.Active, Accounts |-> rest], err |-> ""]

\* Mutant: removing the active account leaves Active as it was while other
\* accounts remain.
RemoveAccount_KeepsActive(s, email) ==
    LET idx == IndexOf(s.Accounts, email)
        rest == RemoveAt(s.Accounts, idx)
    IN IF idx = 0 THEN [af |-> s, err |-> ErrAccountNotFound]
       ELSE IF s.Active = email /\ Len(rest) = 0
            THEN [af |-> [Active |-> "", Accounts |-> rest], err |-> ""]
            ELSE [af |-> [Active |-> s.Active, Accounts |-> rest], err |-> ""]

RemoveAccount(s, email) ==
    LET idx == IndexOf(s.Accounts, email)
        rest == RemoveAt(s.Accounts, idx)
    IN IF idx = 0 THEN [af |-> s, err |-> ErrAccountNotFound]
       ELSE IF s.Active = email
            THEN IF Len(rest) > 0
                 THEN [af |-> [Active |-> rest[1].Email, Accounts |-> rest], err |-> ""]
                 ELSE [af |-> [Active |-> "", Accounts |-> rest], err |-> ""]
            ELSE [af |-> [Active |-> s.Active, Accounts |-> rest], err |-> ""]

\* Mutant: Active is set before the lookup decides.
SetActive_SetsBeforeLookup(s, email) ==
    IF \E i \in 1..Len(s.Accounts) : s.Accounts[i].Email = email
    THEN [af |-> [Active |-> email, Accounts |-> s.Accounts], err |-> ""]
    ELSE [af |-> [Active |-> email, Accounts |-> s.Accounts], err |-> ErrAccountNotFound]

SetActive(s, email) ==
    IF \E i \in 1..Len(s.Accounts) : s.Accounts[i].Email = email
    THEN [af |-> [Active |-> email, Accounts |-> s.Accounts], err |-> ""]
    ELSE [af |-> s, err |-> ErrAccountNotFound]

\* ------------------------------------------------ calls on the store value
\* call records the last completed call: the method, its argument, the error
\* returned and, for GetActiveAccount, the index the returned pointer refers to.
\* wasActive is the comparison a caller makes before the call (runRemove:
\* wasActive := targetEmail == af.Active).
NoCall == [op |-> "none", email |-> "", account |-> ZeroAccount, wasActive |-> FALSE, err |-> "", idx |-> 0]

\* hist.added: the emails passed to AddOrUpdateAccount so far;
\* hist.onlyAdds: no RemoveAccount or SetActive has been called yet.
CallAddOrUpdateAccount(account) ==
    /\ \/ IndexOf(af.Accounts, account.Email) # 0
       \/ Len(af.Accounts) < MaxAccounts
    /\ af' = AddOrUpdateAccount(af, account)
    /\ call' = [op |-> "AddOrUpdateAccount", email |-> account.Email, account |-> account,
                wasActive |-> (account.Email = af.Active), err |-> "", idx |-> 0]
    /\ hist' = [hist EXCEPT !.added = @ \cup {account.Email}]
    /\ UNCHANGED diskVars
    /\ UNCHANGED cmdVars

CallRemoveAccount(email) ==
    /\ af' = RemoveAccount(af, email).af
    /\ call' = [op |-> "RemoveAccount", email |-> email, account |-> ZeroAccount,
                wasActive |-> (email = af.Active), err |-> RemoveAccount(af, email).err, idx |-> 0]
    /\ hist' = [hist EXCEPT !.onlyAdds = FALSE]
    /\ UNCHANGED diskVars
    /\ UNCHANGED cmdVars

CallSetActive(email) ==
    /\ af' = SetActive(af, email).af
    /\ call' = [op |-> "SetActive", email |-> email, account |-> ZeroAccount,
                wasActive |-> (email = af.Active), err |-> SetActive(af, email).err, idx |-> 0]
    /\ hist' = [hist EXCEPT !.onlyAdds = FALSE]
    /\ UNCHANGED diskVars
    /\ UNCHANGED cmdVars

CallGetActiveAccount ==
    /\ call' = [op |-> "GetActiveAccount", email |-> "", account |-> ZeroAccount,
                wasActive |-> FALSE, err |-> GetActiveAccount(af).err, idx |-> GetActiveAccount(af).idx]
    /\ UNCHANGED <<af, hist>>
    /\ UNCHANGED diskVars
    /\ UNCHANGED cmdVars

StoreNext ==
    \/ \E account \in LoggedIn : CallAddOrUpdateAccount(account)
    \/ \E email \in Emails : CallRemoveAccount(email)
    \/ \E email \in Emails : CallSetActive(email)
    \/ CallGetActiveAccount

\* The store created empty and driven by its operations.
Init ==
    /\ af = EmptyAccountsFile
    /\ call = NoCall
    /\ hist = [added |-> {}, onlyAdds |-> TRUE]
    /\ DiskIdle
    /\ CmdIdle

Spec == Init /\ [][StoreNext]_vars

\* One call on the store as any value a caller may hold (decoded from a file
\* that was edited by hand, built as a literal). The calls keep the store
\* among these values, so a second call would start from a state that is
\* already an initial one.
InitAny ==
    /\ af \in AccountsFilesOver(LoggedIn)
    /\ call = NoCall
    /\ hist = [added |-> {}, onlyAdds |-> FALSE]
    /\ DiskIdle
    /\ CmdIdle

AnyNext ==
    \/ \E account \in LoggedIn : call = NoCall /\ CallAddOrUpdateAccount(account)
    \/ \E email \in Emails : call = NoCall /\ CallRemoveAccount(email)
    \/ \E email \in Emails : call = NoCall /\ CallSetActive(email)
    \/ call = NoCall /\ CallGetActiveAccount

SpecAny == InitAny /\ [][AnyNext]_vars

\* The accounts a login adds: the email of the user who logged in is not empty.
Named == {a \in LoggedIn : a.Email # ""}

\* The store created empty and driven by its operations, accounts being added
\* under non-empty emails only; RemoveAccount and SetActive take any email.
NamedNext ==
    \/ \E account \in Named : CallAddOrUpdateAccount(account)
    \/ \E email \in Emails : CallRemoveAccount(email)
    \/ \E email \in Emails : CallSetActive(email)
    \/ CallGetActiveAccount

SpecNamed == Init /\ [][NamedNext]_vars

\* The accounts as the tests write them in a literal: an email and token1.
Plain == {a \in LoggedIn : a.AccessToken = "token1" /\ a.MetricsToken = ""}

\* One call on a store of up to one entry more than MaxAccounts, so that the
\* entries around the one the call touches are there: any order, any Active.
InitFrame ==
    /\ af \in [Active : Emails, Accounts : UNION {[1..k -> Plain] : k \in 0..(MaxAccounts + 1)}]
    /\ call = NoCall
    /\ hist = [added |-> {}, onlyAdds |-> FALSE]
    /\ DiskIdle
    /\ CmdIdle

SpecFrame == InitFrame /\ [][AnyNext]_vars

\* ------------------------------------------------- LoadAccounts, SaveAccounts
\* Mutant: unmarshalAccounts opens the file without waiting for the lock.
LoadRLock_NoWait(p) ==
    /\ pc[p] = "idle"
    /\ rlock' = rlock \cup {p}
    /\ pc' = [pc EXCEPT ![p] = "load_locked"]
    /\ loc' = [loc EXCEPT ![p] = [NoLocals EXCEPT !.absent = (file = NoFile)]]
    /\ ret' = [ret EXCEPT ![p] = NoResult]
    /\ UNCHANGED <<file, wlock, mem, written, torn>>
    /\ UNCHANGED storeVars
    /\ UNCHANGED cmdVars

\* unmarshalAccounts, filemu.RLock: the shared lock is granted while no process
\* holds the lock exclusively.
LoadRLock(p) ==
    /\ pc[p] = "idle"
    /\ wlock = {}
    /\ rlock' = rlock \cup {p}
    /\ pc' = [pc EXCEPT ![p] = "load_locked"]
    /\ loc' = [loc EXCEPT ![p] = [NoLocals EXCEPT !.absent = (file = NoFile)]]
    /\ ret' = [ret EXCEPT ![p] = NoResult]
    /\ UNCHANGED <<file, wlock, mem, written, torn>>
    /\ UNCHANGED storeVars
    /\ UNCHANGED cmdVars

\* filemu.RLock returns an error: unmarshalAccounts returns it and
\* LoadAccounts hands it on.
LoadRLockFails(p) ==
    /\ pc[p] = "idle"
    /\ ret' = [ret EXCEPT ![p] =
                  [op |-> "LoadAccounts", absent |-> (file = NoFile)]
                  @@ LoadAccountsResult(ErrLock, EmptyAccountsFile)]
    /\ loc' = [loc EXCEPT ![p] = NoLocals]
    /\ UNCHANGED <<file, rlock, wlock, pc, mem, written, torn>>
    /\ UNCHANGED storeVars
    /\ UNCHANGED cmdVars

\* os.Open, then Decode and the deferred f.Close, under the shared lock.
LoadOpenDecode(p) ==
    /\ pc[p] = "load_locked"
    /\ \/ /\ file = NoFile
          /\ loc' = [loc EXCEPT ![p] = [@ EXCEPT !.err = ErrNotExist]]
       \/ /\ file # NoFile
          /\ loc' = [loc EXCEPT ![p] = [@ EXCEPT !.err = ErrIO]]
       \/ /\ file \in {Malformed, Truncated}
          /\ loc' = [loc EXCEPT ![p] = [@ EXCEPT !.err = ErrDecode]]
       \/ /\ file \notin {NoFile, Malformed, Truncated}
          /\ loc' = [loc EXCEPT ![p] = [@ EXCEPT !.af = Unmarshal(file)]]
    /\ pc' = [pc EXCEPT ![p] = "load_unlock"]
    /\ UNCHANGED <<file, rlock, wlock, mem, ret, written, torn>>
    /\ UNCHANGED storeVars
    /\ UNCHANGED cmdVars

\* The deferred unlock (its error is kept only when err is nil), then
\* LoadAccounts maps the error: a missing file is an empty AccountsFile.
LoadUnlock(p) ==
    /\ pc[p] = "load_unlock"
    /\ rlock' = rlock \ {p}
    /\ \E e \in {"", ErrUnlock} :
          LET err == IF loc[p].err = "" THEN e ELSE loc[p].err
              res == LoadAccountsResult(err, loc[p].af)
          IN /\ ret' = [ret EXCEPT ![p] = [op |-> "LoadAccounts", absent |-> loc[p].absent] @@ res]
             /\ mem' = [mem EXCEPT ![p] = IF res.err = "" THEN res.af ELSE @]
    /\ pc' = [pc EXCEPT ![p] = "idle"]
    /\ loc' = [loc EXCEPT ![p] = NoLocals]
    /\ UNCHANGED <<file, wlock, written, torn>>
    /\ UNCHANGED storeVars
    /\ UNCHANGED cmdVars

\* Mutant: marshalAccounts takes the lock shared, as unmarshalAccounts does.
SaveLock_Shared(p) ==
    /\ pc[p] = "idle"
    /\ wlock = {}
    /\ rlock' = rlock \cup {p}
    /\ pc' = [pc EXCEPT ![p] = "save_locked"]
    /\ loc' = [loc EXCEPT ![p] = [NoLocals EXCEPT !.absent = (file = NoFile)]]
    /\ ret' = [ret EXCEPT ![p] = NoResult]
    /\ UNCHANGED <<file, wlock, mem, written, torn>>
    /\ UNCHANGED storeVars
    /\ UNCHANGED cmdVars

\* marshalAccounts, filemu.Lock: the exclusive lock is granted while no
\* process holds the lock at all.
SaveLock(p) ==
    /\ pc[p] = "idle"
    /\ rlock = {}
    /\ wlock = {}
    /\ wlock' = {p}
    /\ pc' = [pc EXCEPT ![p] = "save_locked"]
    /\ loc' = [loc EXCEPT ![p] = [NoLocals EXCEPT !.absent = (file = NoFile)]]
    /\ ret' = [ret EXCEPT ![p] = NoResult]
    /\ UNCHANGED <<file, rlock, mem, written, torn>>
    /\ UNCHANGED storeVars
    /\ UNCHANGED cmdVars

SaveLockFails(p) ==
    /\ pc[p] = "idle"
    /\ ret' = [ret EXCEPT ![p] = [op |-> "SaveAccounts", err |-> ErrLock, af |-> Nil,
                                  absent |-> (file = NoFile)]]
    /\ loc' = [loc EXCEPT ![p] = NoLocals]
    /\ UNCHANGED <<file, rlock, wlock, pc, mem, written, torn>>
    /\ UNCHANGED storeVars
    /\ UNCHANGED cmdVars

\* yaml.Marshal, then os.WriteFile(path, data, 0o600) under the exclusive
\* lock. WriteFile is no single step: it opens the file with O_TRUNC, which
\* empties it, and then writes the data, so that until the write ends the file
\* is empty or holds the beginning of the document. When yaml.Marshal returns
\* an error or the file cannot be opened, the file stays as it was.
SaveMarshalWrite(p) ==
    /\ pc[p] = "save_locked"
    /\ \/ /\ file' \in {Truncated, Prefix(Marshal(mem[p]))}
          /\ written' = NothingWritten
          /\ torn' = FALSE
          /\ pc' = [pc EXCEPT ![p] = "save_writing"]
          /\ UNCHANGED loc
       \/ /\ UNCHANGED <<file, written, torn>>
          /\ \E e \in {ErrMarshal, ErrIO} :
                loc' = [loc EXCEPT ![p] = [@ EXCEPT !.err = e]]
          /\ pc' = [pc EXCEPT ![p] = "save_unlock"]
    /\ UNCHANGED <<rlock, wlock, mem, ret>>
    /\ UNCHANGED storeVars
    /\ UNCHANGED cmdVars

\* os.WriteFile, the rest of it: the data is written and the whole document
\* has replaced the file, or the write fails (disk full) and the file is left
\* as far as the write came.
SaveWriteEnds(p) ==
    /\ pc[p] = "save_writing"
    /\ \/ /\ file' = Marshal(mem[p])
          /\ written' = mem[p]
          /\ UNCHANGED <<torn, loc>>
       \/ /\ torn' = TRUE
          /\ loc' = [loc EXCEPT ![p] = [@ EXCEPT !.err = ErrIO]]
          /\ UNCHANGED <<file, written>>
    /\ pc' = [pc EXCEPT ![p] = "save_unlock"]
    /\ UNCHANGED <<rlock, wlock, mem, ret>>
    /\ UNCHANGED storeVars
    /\ UNCHANGED cmdVars

\* Mutant: unlock is called at the end of marshalAccounts instead of being
\* deferred, so a return with an error skips it.
SaveUnlock_NotDeferred(p) ==
    /\ pc[p] = "save_unlock"
    /\ wlock' = IF loc[p].err = "" THEN wlock \ {p} ELSE wlock
    /\ \E e \in {"", ErrUnlock} :
          ret' = [ret EXCEPT ![p] =
                     [op |-> "SaveAccounts", err |-> IF loc[p].err = "" THEN e ELSE loc[p].err,
                      af |-> Nil, absent |-> loc[p].absent]]
    /\ pc' = [pc EXCEPT ![p] = "idle"]
    /\ loc' = [loc EXCEPT ![p] = NoLocals]
    /\ UNCHANGED <<file, rlock, mem, written, torn>>
    /\ UNCHANGED storeVars
    /\ UNCHANGED cmdVars

\* The deferred unlock (its error is kept only when err is nil), then
\* SaveAccounts hands the error on.
SaveUnlock(p) ==
    /\ pc[p] = "save_unlock"
    /\ wlock' = wlock \ {p}
    /\ \E e \in {"", ErrUnlock} :
          ret' = [ret EXCEPT ![p] =
                     [op |-> "SaveAccounts", err |-> IF loc[p].err = "" THEN e ELSE loc[p].err,
                      af |-> Nil, absent |-> loc[p].absent]]
    /\ pc' = [pc EXCEPT ![p] = "idle"]
    /\ loc' = [loc EXCEPT ![p] = NoLocals]
    /\ UNCHANGED <<file, rlock, mem, written, torn>>
    /\ UNCHANGED storeVars
    /\ UNCHANGED cmdVars

\* One process saving the AccountsFile it holds and loading it back, with no
\* other process at work: the store it holds at first is any value, the file
\* at first is absent, undecodable or edited by hand.
InitPersist ==
    /\ af = EmptyAccountsFile
    /\ call = NoCall
    /\ hist = [added |-> {}, onlyAdds |-> FALSE]
    /\ file \in {NoFile, Malformed, HandEdited}
    /\ rlock = {}
    /\ wlock = {}
    /\ pc = [p \in Procs |-> "idle"]
    /\ mem \in {[p \in Procs |-> IF p = 1 THEN s ELSE EmptyAccountsFile] : s \in AccountsFilesOver(Persisted)}
    /\ loc = [p \in Procs |-> NoLocals]
    /\ ret = [p \in Procs |-> NoResult]
    /\ written = NothingWritten
    /\ torn = FALSE
    /\ CmdIdle

PersistNext ==
    \E p \in {1} :
        \/ LoadRLock(p)
        \/ LoadRLockFails(p)
        \/ LoadOpenDecode(p)
        \/ LoadUnlock(p)
        \/ SaveLock(p)
        \/ SaveLockFails(p)
        \/ SaveMarshalWrite(p)
        \/ SaveWriteEnds(p)
        \/ SaveUnlock(p)

SpecPersist == InitPersist /\ [][PersistNext]_vars

\* ------------------------------------------- fly auth remove, fly auth switch
\* A command runs in its process from its first LoadAccounts to its return;
\* between the steps below the process is inside LoadAccounts or SaveAccounts.
Done(c, e) == [c EXCEPT !.phase = "done", !.err = e]

\* The process is at filemu.RLock or filemu.Lock and the lock is not free.
WaitingForLock(p) ==
    /\ pc[p] = "idle"
    /\ ret[p].op = "none"
    /\ \/ cmd[p].phase \in {"load", "sync"} /\ wlock # {}
       \/ cmd[p].phase = "save" /\ rlock \cup wlock # {}

\* runRemove is entered with its email (the argument, or the entry selected at
\* the prompt) and calls LoadAccounts.
RunRemove(p, email) ==
    /\ cmd[p].phase \in {"idle", "done"}
    /\ pc[p] = "idle"
    /\ cmd' = [cmd EXCEPT ![p] = [NoCmd EXCEPT !.name = "remove", !.email = email, !.phase = "load"]]
    /\ ret' = [ret EXCEPT ![p] = NoResult]
    /\ expired' = expired \ {p}
    /\ UNCHANGED <<file, rlock, wlock, pc, mem, loc, written, torn, config, file0>>
    /\ UNCHANGED storeVars

\* Mutant: runRemove goes on to SaveAccounts without calling RemoveAccount.
RunRemoveLoaded_NoRemove(p) ==
    /\ cmd[p].name = "remove"
    /\ cmd[p].phase = "load"
    /\ ret[p].op = "LoadAccounts"
    /\ IF ret[p].err # "" \/ ~HasAccounts(ret[p].af) \/ GetAccount(ret[p].af, cmd[p].email).err # ""
       THEN cmd' = [cmd EXCEPT ![p] = Done(@, ErrLoadFailed)]
       ELSE cmd' = [cmd EXCEPT ![p] =
                       [@ EXCEPT !.phase = "save",
                                 !.saving = TRUE,
                                 !.wasActive = (cmd[p].email = ret[p].af.Active),
                                 !.fresh = (written = NothingWritten /\ file = file0)]]
    /\ ret' = [ret EXCEPT ![p] = NoResult]
    /\ UNCHANGED <<file, rlock, wlock, pc, mem, loc, written, torn, config, expired, file0>>
    /\ UNCHANGED storeVars

\* runRemove from the return of LoadAccounts to the call of SaveAccounts: the
\* checks, the confirmation prompt, wasActive and RemoveAccount.
RunRemoveLoaded(p) ==
    /\ cmd[p].name = "remove"
    /\ cmd[p].phase = "load"
    /\ ret[p].op = "LoadAccounts"
    /\ LET s == ret[p].af
           email == cmd[p].email
       IN IF ret[p].err # ""
          THEN cmd' = [cmd EXCEPT ![p] = Done(@, ErrLoadFailed)] /\ UNCHANGED mem
          ELSE IF ~HasAccounts(s)
          THEN cmd' = [cmd EXCEPT ![p] = Done(@, ErrNoAccountsConfigured)] /\ UNCHANGED mem
          ELSE IF GetAccount(s, email).err # ""
          THEN cmd' = [cmd EXCEPT ![p] = Done(@, ErrNotFoundByCommand)] /\ UNCHANGED mem
          ELSE \E confirmed \in BOOLEAN :
                 IF ~confirmed
                 THEN cmd' = [cmd EXCEPT ![p] = Done(@, "")] /\ UNCHANGED mem
                 ELSE IF RemoveAccount(s, email).err # ""
                 THEN cmd' = [cmd EXCEPT ![p] = Done(@, RemoveAccount(s, email).err)] /\ UNCHANGED mem
                 ELSE /\ cmd' = [cmd EXCEPT ![p] =
                                    [@ EXCEPT !.phase = "save",
                                              !.saving = TRUE,
                                              !.wasActive = (email = s.Active),
                                              !.account = s.Accounts[GetAccount(s, email).idx],
                                              !.active = s.Accounts[GetActiveAccount(s).idx].Email,
                                              !.fresh = (written = NothingWritten /\ file = file0)]]
                      /\ mem' = [mem EXCEPT ![p] = RemoveAccount(s, email).af]
    /\ ret' = [ret EXCEPT ![p] = NoResult]
    /\ UNCHANGED <<file, rlock, wlock, pc, loc, written, torn, config, expired, file0>>
    /\ UNCHANGED storeVars

\* runRemove from the return of SaveAccounts: when the removed account was
\* active, the sync with the accounts that remain or config.Clear without any.
RunRemoveSaved(p) ==
    /\ cmd[p].name = "remove"
    /\ cmd[p].phase = "save"
    /\ ret[p].op = "SaveAccounts"
    /\ IF ret[p].err # ""
       THEN cmd' = [cmd EXCEPT ![p] = Done(@, ErrSaveFailed)] /\ UNCHANGED config
       ELSE IF cmd[p].wasActive
       THEN IF HasAccounts(mem[p])
            THEN cmd' = [cmd EXCEPT ![p] = [@ EXCEPT !.phase = "sync"]] /\ UNCHANGED config
            ELSE \/ cmd' = [cmd EXCEPT ![p] = Done(@, "")] /\ config' = Cleared
                 \/ cmd' = [cmd EXCEPT ![p] = Done(@, ErrClearFailed)] /\ UNCHANGED config
       ELSE cmd' = [cmd EXCEPT ![p] = Done(@, "")] /\ UNCHANGED config
    /\ ret' = [ret EXCEPT ![p] = NoResult]
    /\ UNCHANGED <<file, rlock, wlock, pc, mem, loc, written, torn, expired, file0>>
    /\ UNCHANGED storeVars

\* runSwitch is entered with its email and calls LoadAccounts.
RunSwitch(p, email) ==
    /\ cmd[p].phase \in {"idle", "done"}
    /\ pc[p] = "idle"
    /\ cmd' = [cmd EXCEPT ![p] = [NoCmd EXCEPT !.name = "switch", !.email = email, !.phase = "load"]]
    /\ ret' = [ret EXCEPT ![p] = NoResult]
    /\ expired' = expired \ {p}
    /\ UNCHANGED <<file, rlock, wlock, pc, mem, loc, written, torn, config, file0>>
    /\ UNCHANGED storeVars

\* runSwitch from the return of LoadAccounts to the call of SaveAccounts.
RunSwitchLoaded(p) ==
    /\ cmd[p].name = "switch"
    /\ cmd[p].phase = "load"
    /\ ret[p].op = "LoadAccounts"
    /\ LET s == ret[p].af
           email == cmd[p].email
       IN IF ret[p].err # ""
          THEN cmd' = [cmd EXCEPT ![p] = Done(@, ErrLoadFailed)] /\ UNCHANGED mem
          ELSE IF ~HasAccounts(s)
          THEN cmd' = [cmd EXCEPT ![p] = Done(@, ErrNoAccountsConfigured)] /\ UNCHANGED mem
          ELSE IF AccountCount(s) = 1
          THEN cmd' = [cmd EXCEPT ![p] = Done(@, "")] /\ UNCHANGED mem
          ELSE IF email = s.Active
          THEN cmd' = [cmd EXCEPT ![p] = Done(@, "")] /\ UNCHANGED mem
          ELSE IF SetActive(s, email).err # ""
          THEN cmd' = [cmd EXCEPT ![p] = Done(@, ErrNotFoundByCommand)] /\ UNCHANGED mem
          ELSE /\ cmd' = [cmd EXCEPT ![p] =
                             [@ EXCEPT !.phase = "save",
                                       !.saving = TRUE,
                                       !.active = s.Accounts[GetActiveAccount(s).idx].Email,
                                       !.fresh = (written = NothingWritten /\ file = file0)]]
               /\ mem' = [mem EXCEPT ![p] = SetActive(s, email).af]
    /\ ret' = [ret EXCEPT ![p] = NoResult]
    /\ UNCHANGED <<file, rlock, wlock, pc, loc, written, torn, config, expired, file0>>
    /\ UNCHANGED storeVars

\* runSwitch from the return of SaveAccounts: the sync follows.
RunSwitchSaved(p) ==
    /\ cmd[p].name = "switch"
    /\ cmd[p].phase = "save"
    /\ ret[p].op = "SaveAccounts"
    /\ IF ret[p].err # ""
       THEN cmd' = [cmd EXCEPT ![p] = Done(@, ErrSaveFailed)]
       ELSE cmd' = [cmd EXCEPT ![p] = [@ EXCEPT !.phase = "sync"]]
    /\ ret' = [ret EXCEPT ![p] = NoResult]
    /\ UNCHANGED <<file, rlock, wlock, pc, mem, loc, written, torn, config, expired, file0>>
    /\ UNCHANGED storeVars

\* SyncActiveAccountToConfig is called by itself and calls LoadAccounts.
CallSyncActiveAccountToConfig(p) ==
    /\ cmd[p].phase \in {"idle", "done"}
    /\ pc[p] = "idle"
    /\ cmd' = [cmd EXCEPT ![p] = [NoCmd EXCEPT !.name = "sync", !.phase = "sync"]]
    /\ ret' = [ret EXCEPT ![p] = NoResult]
    /\ expired' = expired \ {p}
    /\ UNCHANGED <<file, rlock, wlock, pc, mem, loc, written, torn, config, file0>>
    /\ UNCHANGED storeVars

\* SyncActiveAccountToConfig has returned e to its caller: runRemove and
\* runSwitch return with it, runLogout goes on.
SyncReturn(c, e) ==
    [c EXCEPT !.phase = IF c.name = "logout" THEN "synced" ELSE "done", !.err = e]

\* SyncActiveAccountToConfig from the return of its LoadAccounts, and the
\* return of the command that called it.
SyncActiveAccountToConfig(p) ==
    /\ cmd[p].phase = "sync"
    /\ ret[p].op = "LoadAccounts"
    /\ LET s == ret[p].af
       IN IF ret[p].err # ""
          THEN cmd' = [cmd EXCEPT ![p] = SyncReturn(@, ErrSyncFailed)] /\ UNCHANGED config
          ELSE IF ~HasAccounts(s)
          THEN cmd' = [cmd EXCEPT ![p] = SyncReturn(@, "")] /\ UNCHANGED config
          ELSE IF GetActiveAccount(s).err # ""
          THEN cmd' = [cmd EXCEPT ![p] = SyncReturn(@, ErrSyncFailed)] /\ UNCHANGED config
          ELSE \E failAt \in 0..3 :
                 LET account == s.Accounts[GetActiveAccount(s).idx]
                     out == SyncSetters(config, account, failAt)
                 IN /\ config' = out.config
                    /\ cmd' = [cmd EXCEPT ![p] =
                                  [SyncReturn(@, IF out.err # "" THEN ErrSyncFailed ELSE "")
                                      EXCEPT !.calls = out.calls, !.from = account]]
    /\ ret' = [ret EXCEPT ![p] = NoResult]
    /\ UNCHANGED <<file, rlock, wlock, pc, mem, loc, written, torn, expired, file0>>
    /\ UNCHANGED storeVars

\* Mutant: the lock call gives up with an error when the deadline passes.
DeadlineExpires_Aborts(p) ==
    /\ WaitingForLock(p)
    /\ p \notin expired
    /\ expired' = expired \cup {p}
    /\ ret' = [ret EXCEPT ![p] =
                  [op |-> IF cmd[p].phase = "save" THEN "SaveAccounts" ELSE "LoadAccounts",
                   err |-> ErrLock, af |-> Nil, absent |-> (file = NoFile)]]
    /\ UNCHANGED <<cmd, config, file0>>
    /\ UNCHANGED <<file, rlock, wlock, pc, mem, loc, written, torn>>
    /\ UNCHANGED storeVars

\* The deadline of the context the command was given passes while the process
\* waits for the lock. LoadAccounts and SaveAccounts take no context and lock
\* with context.Background().
DeadlineExpires(p) ==
    /\ WaitingForLock(p)
    /\ p \notin expired
    /\ expired' = expired \cup {p}
    /\ UNCHANGED <<cmd, config, file0>>
    /\ UNCHANGED diskVars
    /\ UNCHANGED storeVars

\* The stores a file may hold when a command starts: StoredAccounts in any
\* order without duplicates, Active any email, empty or stale included.
StoredFiles ==
    {s \in AccountsFilesOver(StoredAccounts) :
        \A i, j \in 1..Len(s.Accounts) : i # j => s.Accounts[i].Email # s.Accounts[j].Email}

\* The accounts file absent or holding a store, config.yml in step with it.
InitCmd ==
    /\ af = EmptyAccountsFile
    /\ call = NoCall
    /\ hist = [added |-> {}, onlyAdds |-> FALSE]
    /\ file \in {NoFile} \cup {Marshal(s) : s \in StoredFiles}
    /\ rlock = {}
    /\ wlock = {}
    /\ pc = [p \in Procs |-> "idle"]
    /\ mem = [p \in Procs |-> EmptyAccountsFile]
    /\ loc = [p \in Procs |-> NoLocals]
    /\ ret = [p \in Procs |-> NoResult]
    /\ written = NothingWritten
    /\ torn = FALSE
    /\ cmd = [p \in Procs |-> NoCmd]
    /\ config = IF file # NoFile /\ HasAccounts(Unmarshal(file))
                THEN Credentials(Unmarshal(file).Accounts[GetActiveAccount(Unmarshal(file)).idx])
                ELSE Cleared
    /\ expired = {}
    /\ file0 = file

\* One process running one command after the other.
CmdNext ==
    \E p \in {1} :
        \/ \E email \in Emails \ {""} : RunRemove(p, email)
        \/ \E email \in Emails \ {""} : RunSwitch(p, email)
        \/ CallSyncActiveAccountToConfig(p)
        \/ cmd[p].phase \in {"load", "sync"} /\ ret[p].op = "none" /\ LoadRLock(p)
        \/ cmd[p].phase \in {"load", "sync"} /\ ret[p].op = "none" /\ LoadRLockFails(p)
        \/ LoadOpenDecode(p)
        \/ LoadUnlock(p)
        \/ RunRemoveLoaded(p)
        \/ RunSwitchLoaded(p)
        \/ cmd[p].phase = "save" /\ ret[p].op = "none" /\ SaveLock(p)
        \/ cmd[p].phase = "save" /\ ret[p].op = "none" /\ SaveLockFails(p)
        \/ SaveMarshalWrite(p)
        \/ SaveWriteEnds(p)
        \/ SaveUnlock(p)
        \/ RunRemoveSaved(p)
        \/ RunSwitchSaved(p)
        \/ SyncActiveAccountToConfig(p)

SpecCmd == InitCmd /\ [][CmdNext]_vars

\* The email a process passes to its command: each process its own, as far as
\* there are emails.
EmailOf(p) == EmailNames[((p - 1) % NumEmails) + 1]

\* The processes of one config directory, each running one command on its own
\* email, up to the return of its SaveAccounts.
ConcNext ==
    \E p \in Procs :
        \/ cmd[p].phase = "idle" /\ RunRemove(p, EmailOf(p))
        \/ cmd[p].phase = "idle" /\ RunSwitch(p, EmailOf(p))
        \/ cmd[p].phase = "load" /\ ret[p].op = "none" /\ LoadRLock(p)
        \/ cmd[p].phase = "load" /\ ret[p].op = "none" /\ LoadRLockFails(p)
        \/ LoadOpenDecode(p)
        \/ LoadUnlock(p)
        \/ RunRemoveLoaded(p)
        \/ RunSwitchLoaded(p)
        \/ cmd[p].phase = "save" /\ ret[p].op = "none" /\ SaveLock(p)
        \/ cmd[p].phase = "save" /\ ret[p].op = "none" /\ SaveLockFails(p)
        \/ SaveMarshalWrite(p)
        \/ SaveWriteEnds(p)
        \/ SaveUnlock(p)
        \/ RunRemoveSaved(p)
        \/ RunSwitchSaved(p)

\* Every stored account in one file, the first of them active, and config.yml
\* in step with it.
InitConc ==
    /\ InitCmd
    /\ file = Marshal([Active |-> EmailNames[1],
                       Accounts |-> [i \in 1..NumEmails |-> StoredAccount(i)]])

SpecConc == InitConc /\ [][ConcNext]_vars

\* Between acquiring the lock and releasing it unmarshalAccounts and
\* marshalAccounts wait for nothing but file I/O: a process inside one of them
\* goes on to its next step.
InsideStep(p) ==
    \/ LoadOpenDecode(p)
    \/ LoadUnlock(p)
    \/ SaveMarshalWrite(p)
    \/ SaveWriteEnds(p)
    \/ SaveUnlock(p)

SpecConcFair == SpecConc /\ \A p \in Procs : WF_vars(InsideStep(p))

\* The same processes, each started under a context whose deadline can expire
\* while the process waits for the lock.
DeadlineNext ==
    \/ ConcNext
    \/ \E p \in Procs : DeadlineExpires(p)

SpecDeadline == InitConc /\ [][DeadlineNext]_vars

\* ------------------------------------------------------------ fly auth logout
\* runLogout is entered: the token is revoked (a failure is logged), the agent
\* is stopped (a failure is returned), then LoadAccounts is called.
RunLogout(p) ==
    /\ cmd[p].phase \in {"idle", "done"}
    /\ pc[p] = "idle"
    /\ \/ cmd' = [cmd EXCEPT ![p] = [NoCmd EXCEPT !.name = "logout", !.phase = "load"]]
       \/ cmd' = [cmd EXCEPT ![p] = Done([NoCmd EXCEPT !.name = "logout"], ErrStopAgent)]
    /\ ret' = [ret EXCEPT ![p] = NoResult]
    /\ expired' = expired \ {p}
    /\ UNCHANGED <<file, rlock, wlock, pc, mem, loc, written, torn, config, file0>>
    /\ UNCHANGED storeVars

\* runLogout from the return of LoadAccounts: with a store that has accounts,
\* currentEmail := af.Active and RemoveAccount(currentEmail), and SaveAccounts
\* is called when that succeeded; on every other path the command goes to
\* config.Clear.
RunLogoutLoaded(p) ==
    /\ cmd[p].name = "logout"
    /\ cmd[p].phase = "load"
    /\ ret[p].op = "LoadAccounts"
    /\ LET s == ret[p].af
       IN IF ret[p].err = "" /\ HasAccounts(s)
          THEN LET currentEmail == s.Active
                   resolved == s.Accounts[GetActiveAccount(s).idx]
               IN IF RemoveAccount(s, currentEmail).err = ""
                  THEN /\ cmd' = [cmd EXCEPT ![p] =
                                     [@ EXCEPT !.phase = "save",
                                               !.saving = TRUE,
                                               !.email = currentEmail,
                                               !.account = resolved,
                                               !.active = resolved.Email,
                                               !.fresh = (written = NothingWritten /\ file = file0)]]
                       /\ mem' = [mem EXCEPT ![p] = RemoveAccount(s, currentEmail).af]
                  ELSE /\ cmd' = [cmd EXCEPT ![p] =
                                     [@ EXCEPT !.phase = "clear",
                                               !.email = currentEmail,
                                               !.account = resolved,
                                               !.active = resolved.Email]]
                       /\ UNCHANGED mem
          ELSE /\ cmd' = [cmd EXCEPT ![p] = [@ EXCEPT !.phase = "clear"]]
               /\ UNCHANGED mem
    /\ ret' = [ret EXCEPT ![p] = NoResult]
    /\ UNCHANGED <<file, rlock, wlock, pc, loc, written, torn, config, expired, file0>>
    /\ UNCHANGED storeVars

\* runLogout from the return of SaveAccounts: its error is logged only; with
\* accounts left in the store in memory the sync follows, else config.Clear.
RunLogoutSaved(p) ==
    /\ cmd[p].name = "logout"
    /\ cmd[p].phase = "save"
    /\ ret[p].op = "SaveAccounts"
    /\ cmd' = [cmd EXCEPT ![p] =
                  [@ EXCEPT !.phase = IF HasAccounts(mem[p]) THEN "sync" ELSE "clear"]]
    /\ ret' = [ret EXCEPT ![p] = NoResult]
    /\ UNCHANGED <<file, rlock, wlock, pc, mem, loc, written, torn, config, expired, file0>>
    /\ UNCHANGED storeVars

\* runLogout from the return of SyncActiveAccountToConfig: its error is logged
\* only and nil is returned.
RunLogoutSynced(p) ==
    /\ cmd[p].name = "logout"
    /\ cmd[p].phase = "synced"
    /\ cmd' = [cmd EXCEPT ![p] = Done(@, "")]
    /\ UNCHANGED <<file, rlock, wlock, pc, mem, loc, ret, written, torn, config, expired, file0>>
    /\ UNCHANGED storeVars

\* runLogout, config.Clear(path) and the return.
RunLogoutClear(p) ==
    /\ cmd[p].name = "logout"
    /\ cmd[p].phase = "clear"
    /\ \/ cmd' = [cmd EXCEPT ![p] = Done(@, "")] /\ config' = Cleared
       \/ cmd' = [cmd EXCEPT ![p] = Done(@, ErrClearFailed)] /\ UNCHANGED config
    /\ UNCHANGED <<file, rlock, wlock, pc, mem, loc, ret, written, torn, expired, file0>>
    /\ UNCHANGED storeVars

\* One process running fly auth logout, again and again.
LogoutNext ==
    \E p \in {1} :
        \/ RunLogout(p)
        \/ cmd[p].phase \in {"load", "sync"} /\ ret[p].op = "none" /\ LoadRLock(p)
        \/ cmd[p].phase \in {"load", "sync"} /\ ret[p].op = "none" /\ LoadRLockFails(p)
        \/ LoadOpenDecode(p)
        \/ LoadUnlock(p)
        \/ RunLogoutLoaded(p)
        \/ cmd[p].phase = "save" /\ ret[p].op = "none" /\ SaveLock(p)
        \/ cmd[p].phase = "save" /\ ret[p].op = "none" /\ SaveLockFails(p)
        \/ SaveMarshalWrite(p)
        \/ SaveWriteEnds(p)
        \/ SaveUnlock(p)
        \/ RunLogoutSaved(p)
        \/ SyncActiveAccountToConfig(p)
        \/ RunLogoutSynced(p)
        \/ RunLogoutClear(p)

SpecLogout == InitCmd /\ [][LogoutNext]_vars

\* ------------------------------------------------------------------ claims
\* What GetActiveAccount returns on the current store: the account pointed to.
ActiveAccountIs(account) ==
    /\ GetActiveAccount(af).err = ""
    /\ GetActiveAccount(af).idx \in 1..Len(af.Accounts)
    /\ af.Accounts[GetActiveAccount(af).idx] = account

C2_NoDuplicateEmails ==
    \A i, j \in 1..Len(af.Accounts) : i # j => af.Accounts[i].Email # af.Accounts[j].Email

C2_Witness ==
    /\ call.op = "AddOrUpdateAccount"
    /\ ~hist.onlyAdds
    /\ Len(af.Accounts) = 2
    /\ af.Accounts[1].Email = call.email

\* C3: in every store reached from the empty store by the store operations,
\* an empty accounts has an empty Active.
C3_EmptyHasNoActive ==
    Len(af.Accounts) = 0 => af.Active = ""

C3_Witness ==
    /\ call.op = "RemoveAccount"
    /\ call.err = ""
    /\ call.wasActive
    /\ Len(af.Accounts) = 0

\* C4: on every store holding exactly one account, RemoveAccount of that
\* account's email succeeds and leaves HasAccounts() false, AccountCount() 0
\* and Active empty.
C4_RemoveLastClears ==
    [][(/\ call'.op = "RemoveAccount"
        /\ Len(af.Accounts) = 1
        /\ af.Accounts[1].Email = call'.email)
       => (/\ call'.err = ""
           /\ ~HasAccounts(af')
           /\ AccountCount(af') = 0
           /\ af'.Active = "")]_vars

\* What RemoveAccount does on a store holding exactly one account: the
\* removal succeeds and empties the store; Active is cleared when it was the
\* removed email or already empty, and an Active that names no entry stays.
RemoveLastClearsOwnActive ==
    [][(/\ call'.op = "RemoveAccount"
        /\ Len(af.Accounts) = 1
        /\ af.Accounts[1].Email = call'.email)
       => (/\ call'.err = ""
           /\ ~HasAccounts(af')
           /\ AccountCount(af') = 0
           /\ af.Active \in {"", call'.email} => af'.Active = ""
           /\ af.Active \notin {"", call'.email} => af'.Active = af.Active)]_vars

\* C5: over AddOrUpdateAccount calls from the empty store, AccountCount() is
\* the number of distinct emails passed so far, and a call with an email
\* already present leaves AccountCount() unchanged.
C5_CountIsDistinctEmails ==
    /\ [](hist.onlyAdds => AccountCount(af) = Cardinality(hist.added))
    /\ [][(/\ call'.op = "AddOrUpdateAccount"
           /\ \E i \in 1..Len(af.Accounts) : af.Accounts[i].Email = call'.email)
          => AccountCount(af') = AccountCount(af)]_vars

C5_Witness ==
    /\ call.op = "AddOrUpdateAccount"
    /\ hist.onlyAdds
    /\ ~call.wasActive
    /\ Cardinality(hist.added) = 2
    /\ AccountCount(af) = 2
    /\ af.Accounts[1].Email = call.email

C7_NotFoundChangesNothing ==
    [][(/\ call'.op \in {"RemoveAccount", "SetActive"}
        /\ \A i \in 1..Len(af.Accounts) : af.Accounts[i].Email # call'.email)
       => (/\ call'.err = ErrAccountNotFound
           /\ af'.Active = af.Active
           /\ af'.Accounts = af.Accounts)]_vars

C7_Witness ==
    /\ call.op = "SetActive"
    /\ call.err = ErrAccountNotFound
    /\ Len(af.Accounts) >= 1
    /\ af.Active # call.email

\* C8: GetActiveAccount returns ErrNoAccounts exactly on a store without
\* accounts; otherwise it returns the entry whose email is Active, and the
\* first entry when Active is empty or matches no entry.
C8_GetActiveAccountResolves ==
    call.op = "GetActiveAccount" =>
        /\ call.err = ErrNoAccounts <=> Len(af.Accounts) = 0
        /\ Len(af.Accounts) > 0 =>
              /\ call.err = ""
              /\ call.idx \in 1..Len(af.Accounts)
              /\ IF af.Active # "" /\ \E i \in 1..Len(af.Accounts) : af.Accounts[i].Email = af.Active
                 THEN af.Accounts[call.idx].Email = af.Active
                 ELSE call.idx = 1

C8_Witness ==
    /\ call.op = "GetActiveAccount"
    /\ call.err = ""
    /\ Len(af.Accounts) = 2
    /\ af.Active # ""
    /\ \A i \in 1..Len(af.Accounts) : af.Accounts[i].Email # af.Active
    /\ call.idx = 1

\* C9: SaveAccounts of any AccountsFile followed, with no save in between, by
\* LoadAccounts returns an AccountsFile with the same Active and accounts equal
\* element for element, MetricsToken and LastLogin included.
C9_SaveLoadRoundTrip ==
    \A p \in Procs :
        (ret[p].op = "LoadAccounts" /\ ret[p].err = "" /\ written # NothingWritten)
        => /\ ret[p].af.Active = written.Active
           /\ Len(ret[p].af.Accounts) = Len(written.Accounts)
           /\ \A i \in 1..Len(written.Accounts) : ret[p].af.Accounts[i] = written.Accounts[i]

C9_Witness ==
    /\ ret[1].op = "LoadAccounts"
    /\ ret[1].err = ""
    /\ written # NothingWritten
    /\ ret[1].af = written
    /\ Len(written.Accounts) = 2
    /\ written.Active # ""
    /\ written.Accounts[1].MetricsToken = "" /\ written.Accounts[1].LastLogin # 0
    /\ written.Accounts[2].MetricsToken # "" /\ written.Accounts[2].LastLogin = 0

InLoad(p) == pc[p] \in {"load_locked", "load_unlock"}

InSave(p) == pc[p] \in {"save_locked", "save_writing", "save_unlock"}

\* C11: of the processes of one directory at most one is inside the critical
\* section of a save, and none is inside the critical section of a load while
\* another is inside that of a save; loads may be inside theirs together.
C11_SaveExcludesAll ==
    \A p, q \in Procs : (p # q /\ InSave(p)) => (~InSave(q) /\ ~InLoad(q))

C11_Witness ==
    /\ InLoad(1)
    /\ InLoad(2)
    /\ \A p \in Procs : ~InSave(p)

Mutated(c, s) ==
    IF c.name = "remove" THEN RemoveAccount(s, c.email).af ELSE SetActive(s, c.email).af

\* Process p has saved its mutated store without error, having loaded before
\* any save wrote the file.
SavedFresh(p) ==
    /\ cmd[p].saving
    /\ cmd[p].fresh
    /\ cmd[p].phase \in {"sync", "done"}
    /\ cmd[p].err = ""

\* C13: when two processes both load before either saves, mutate different
\* emails and save without error, the file holds the store of the one that
\* saved second, which is its own mutation of the store loaded at first; a
\* removal by the one that saved first is undone.
C13_LastWriterWins ==
    \A p, q \in Procs :
        (/\ p # q
         /\ SavedFresh(p)
         /\ SavedFresh(q)
         /\ cmd[p].email # cmd[q].email
         /\ \A r \in Procs \ {p, q} : ~cmd[r].saving)
        => \E second \in {p, q} :
              LET first == IF second = p THEN q ELSE p
              IN /\ written = mem[second]
                 /\ file = Marshal(mem[second])
                 /\ mem[second] = Mutated(cmd[second], Unmarshal(file0))
                 /\ mem[first] # mem[second]
                 /\ cmd[first].name = "remove"
                       => IndexOf(Unmarshal(file).Accounts, cmd[first].email) # 0

C13_Witness ==
    /\ SavedFresh(1)
    /\ SavedFresh(2)
    /\ cmd[1].name = "remove"
    /\ cmd[2].name = "remove"
    /\ cmd[1].email # cmd[2].email
    /\ file = Marshal(mem[2])
    /\ IndexOf(mem[1].Accounts, cmd[1].email) = 0
    /\ IndexOf(Unmarshal(file).Accounts, cmd[1].email) # 0

\* C16 as stated: a load or save that waits for the lock when the caller's
\* deadline expires returns an error, so that no process waits for the lock
\* past its deadline.
C16_NoWaitPastDeadline ==
    \A p \in Procs : p \in expired => ~WaitingForLock(p)

\* C16 amended: the lock is awaited without a deadline; when the caller's
\* deadline expires the load or save goes on waiting, returns nothing, and
\* neither the file nor the store in memory has changed.
C16_WaitsWithoutDeadline ==
    [][\A p \in Procs :
          (p \in expired' /\ p \notin expired)
          => /\ WaitingForLock(p)
             /\ pc'[p] = "idle"
             /\ ret'[p].op = "none"
             /\ file' = file
             /\ mem' = mem
             /\ cmd' = cmd]_vars

C16_Witness ==
    /\ 2 \in expired
    /\ cmd[2].phase = "save"
    /\ ret[2].op = "SaveAccounts"
    /\ ret[2].err = ""
    /\ file = Marshal(mem[2])

\* C17: LoadAccounts turns a failure into an empty store without error only
\* for the missing file: with the lock not acquired, the file not opened or
\* the document malformed it returns the error and no store, and a store it
\* returns for a file that exists is the decoded document; SaveAccounts whose
\* lock is not acquired returns the error and leaves the file as it was.
C17_OnlyMissingFileAbsorbed ==
    /\ [](\A p \in Procs :
            ret[p].op = "LoadAccounts" =>
                /\ ret[p].err # "" => ret[p].af = Nil
                /\ ret[p].err = "" =>
                      IF ret[p].absent
                      THEN ret[p].af = EmptyAccountsFile /\ file = NoFile
                      ELSE file \notin {NoFile, Malformed, Truncated} /\ ret[p].af = Unmarshal(file))
    /\ [][\A p \in Procs :
            (pc[p] = "load_unlock" /\ pc'[p] = "idle" /\ loc[p].err \in {ErrIO, ErrDecode})
            => (ret'[p].err = loc[p].err /\ ret'[p].af = Nil)]_vars
    /\ [][\A p \in Procs :
            (ret'[p] # ret[p] /\ ret'[p].op = "LoadAccounts" /\ pc[p] = "idle")
            => (ret'[p].err = ErrLock /\ ret'[p].af = Nil /\ file' = file)]_vars
    /\ [][\A p \in Procs :
            (ret'[p] # ret[p] /\ ret'[p].op = "SaveAccounts" /\ pc[p] = "idle")
            => (ret'[p].err = ErrLock /\ file' = file /\ written' = written)]_vars

C17_Witness ==
    /\ ret[1].op = "LoadAccounts"
    /\ ret[1].err = ErrDecode
    /\ ret[1].af = Nil
    /\ file = Malformed
    /\ mem[1] # EmptyAccountsFile

\* The account GetActiveAccount gives on the store the file holds.
ActiveInFile == Unmarshal(file).Accounts[GetActiveAccount(Unmarshal(file)).idx]

\* C14: once a command has saved its mutation and its sync of a store with
\* accounts has returned nil, config.yml holds the access token, the metrics
\* token and the last login of the account GetActiveAccount gives, none of
\* them left from another account.
C14_ConfigHoldsActive ==
    \A p \in Procs :
        (/\ cmd[p].phase = "done"
         /\ cmd[p].saving
         /\ cmd[p].err = ""
         /\ cmd[p].calls # <<>>)
        => config = Credentials(ActiveInFile)

\* What the sync does give: the access token of the active account, and each
\* of the other two keys either that account's value or, where the account
\* has none, the value the key had before.
SyncSetsAccessToken ==
    \A p \in Procs :
        (/\ cmd[p].phase = "done"
         /\ cmd[p].saving
         /\ cmd[p].err = ""
         /\ cmd[p].calls # <<>>)
        => /\ config.AccessToken = ActiveInFile.AccessToken
           /\ ActiveInFile.MetricsToken # "" => config.MetricsToken = ActiveInFile.MetricsToken
           /\ ActiveInFile.LastLogin # 0 => config.LastLogin = ActiveInFile.LastLogin

\* The place of a setter in the order of SyncActiveAccountToConfig.
Rank(setter) ==
    CASE setter = "SetAccessToken" -> 1
      [] setter = "SetMetricsToken" -> 2
      [] setter = "SetLastLogin" -> 3

\* C15: SyncActiveAccountToConfig on a store without accounts returns nil and
\* calls no setter; otherwise it calls SetAccessToken, then SetMetricsToken
\* only with a metrics token, then SetLastLogin only with a last login; the
\* first setter that fails ends the sync with an error, no later setter is
\* called and the keys set before it stay set.
C15_SyncSetterOrder ==
    [][\A p \in Procs :
          (cmd[p].phase = "sync" /\ cmd'[p].phase = "done" /\ ret[p].err = "")
          => LET s == ret[p].af
                 calls == cmd'[p].calls
                 called == {calls[i] : i \in 1..Len(calls)}
                 failed == IF cmd'[p].err # "" THEN {calls[Len(calls)]} ELSE {}
             IN IF ~HasAccounts(s)
                THEN cmd'[p].err = "" /\ calls = <<>> /\ config' = config
                ELSE LET a == s.Accounts[GetActiveAccount(s).idx]
                     IN /\ calls # <<>>
                        /\ calls[1] = "SetAccessToken"
                        /\ \A i, j \in 1..Len(calls) : i < j => Rank(calls[i]) < Rank(calls[j])
                        /\ "SetMetricsToken" \in called => a.MetricsToken # ""
                        /\ "SetLastLogin" \in called => a.LastLogin # 0
                        /\ cmd'[p].err = "" =>
                              /\ a.MetricsToken # "" => "SetMetricsToken" \in called
                              /\ a.LastLogin # 0 => "SetLastLogin" \in called
                        /\ config'.AccessToken =
                              IF "SetAccessToken" \in called \ failed
                              THEN a.AccessToken ELSE config.AccessToken
                        /\ config'.MetricsToken =
                              IF "SetMetricsToken" \in called \ failed
                              THEN a.MetricsToken ELSE config.MetricsToken
                        /\ config'.LastLogin =
                              IF "SetLastLogin" \in called \ failed
                              THEN a.LastLogin ELSE config.LastLogin]_vars

C15_Witness ==
    /\ cmd[1].phase = "done"
    /\ cmd[1].err = ErrSyncFailed
    /\ cmd[1].calls = <<"SetAccessToken", "SetMetricsToken">>
    /\ cmd[1].from.LastLogin # 0
    /\ config.AccessToken = cmd[1].from.AccessToken
    /\ config.MetricsToken # cmd[1].from.MetricsToken
    /\ config.LastLogin # cmd[1].from.LastLogin

\* The sync of a store without accounts: nil, no setter.
SyncOfEmptyStore ==
    /\ cmd[1].name = "sync"
    /\ cmd[1].phase = "done"
    /\ cmd[1].err = ""
    /\ cmd[1].calls = <<>>
    /\ file = NoFile

\* C20: when runRemove has removed and saved the account GetActiveAccount gave
\* and returned nil, then with accounts left Active names one of them and
\* config.yml holds that account's credentials, and with none left config.yml
\* is cleared.
C20_RemoveActiveResyncs ==
    \A p \in Procs :
        (/\ cmd[p].name = "remove"
         /\ cmd[p].phase = "done"
         /\ cmd[p].saving
         /\ cmd[p].err = ""
         /\ cmd[p].active = cmd[p].email)
        => IF HasAccounts(Unmarshal(file))
           THEN /\ IndexOf(Unmarshal(file).Accounts, Unmarshal(file).Active) # 0
                /\ config = Credentials(ActiveInFile)
           ELSE config = Cleared

\* C18: AddOrUpdateAccount(A) with an email that is present puts A, with all
\* its fields, in the place of that entry and leaves the other entries and
\* the order as they were; with a new email it appends A and leaves the
\* entries there were as they were.
C18_AddOrUpdateFrame ==
    [][call'.op = "AddOrUpdateAccount"
       => LET A == call'.account
              pre == af.Accounts
              post == af'.Accounts
          IN IF \E i \in 1..Len(pre) : pre[i].Email = A.Email
             THEN \E i \in 1..Len(pre) :
                     /\ pre[i].Email = A.Email
                     /\ Len(post) = Len(pre)
                     /\ post[i] = A
                     /\ \A j \in 1..Len(pre) : j # i => post[j] = pre[j]
             ELSE /\ Len(post) = Len(pre) + 1
                  /\ post[Len(post)] = A
                  /\ \A j \in 1..Len(pre) : post[j] = pre[j]]_vars

C18_Witness ==
    /\ call.op = "AddOrUpdateAccount"
    /\ Len(af.Accounts) = MaxAccounts + 1
    /\ af.Accounts[2] = call.account
    /\ call.account \notin Plain
    /\ af.Accounts[1].Email # call.email
    /\ af.Accounts[Len(af.Accounts)].Email # call.email

\* C19: a RemoveAccount(e) that succeeds takes out one entry, whose email is
\* e, and keeps the others with their fields in their order; no entry with
\* email e is left when the emails were distinct; Active stays as it was
\* when it was not e.
C19_RemoveFrame ==
    [][(call'.op = "RemoveAccount" /\ call'.err = "")
       => LET e == call'.email
              pre == af.Accounts
              post == af'.Accounts
          IN /\ \E i \in 1..Len(pre) :
                   /\ pre[i].Email = e
                   /\ Len(post) = Len(pre) - 1
                   /\ \A j \in 1..Len(post) : post[j] = (IF j < i THEN pre[j] ELSE pre[j + 1])
             /\ (\A i, j \in 1..Len(pre) : i # j => pre[i].Email # pre[j].Email)
                   => \A j \in 1..Len(post) : post[j].Email # e
             /\ e # af.Active => af'.Active = af.Active]_vars

C19_Witness ==
    /\ call.op = "RemoveAccount"
    /\ call.err = ""
    /\ ~call.wasActive
    /\ Len(af.Accounts) = MaxAccounts
    /\ af.Active = af.Accounts[Len(af.Accounts)].Email
    /\ \A j \in 1..Len(af.Accounts) : af.Accounts[j].Email # call.email
    /\ \A i, j \in 1..Len(af.Accounts) : i # j => af.Accounts[i].Email # af.Accounts[j].Email

\* The branches of GetActiveAccount that return the first entry because Active
\* is empty or names no entry.
UsesFallback(s) ==
    /\ Len(s.Accounts) > 0
    /\ \/ s.Active = ""
       \/ IndexOf(s.Accounts, s.Active) = 0

\* C21: in every store reached from the empty store by AddOrUpdateAccount with
\* non-empty emails, RemoveAccount and SetActive, a non-empty accounts has a
\* non-empty Active that is the email of exactly one entry, and
\* GetActiveAccount does not take a first-entry fallback.
C21_ActiveNamesOneEntry ==
    /\ Len(af.Accounts) > 0 =>
            /\ af.Active # ""
            /\ Cardinality({i \in 1..Len(af.Accounts) : af.Accounts[i].Email = af.Active}) = 1
    /\ ~UsesFallback(af)
    /\ call.op = "GetActiveAccount" /\ call.err = "" =>
            af.Accounts[call.idx].Email = af.Active

C21_Witness ==
    /\ call.op = "RemoveAccount"
    /\ call.err = ""
    /\ call.wasActive
    /\ Len(af.Accounts) > 0
    /\ af.Active = af.Accounts[1].Email
    /\ hist.added = Emails \ {""}

HoldsLock(p) == p \in rlock \cup wlock

\* C22: a process holds the lock only inside LoadAccounts or SaveAccounts; the
\* step by which a load or save returns, with or without an error, leaves the
\* process without the lock; a process that waits for the lock waits for one
\* that is inside a load or save; and no process holds the lock from some
\* point on for ever.
C22_LockReleasedOnReturn ==
    /\ [](\A p \in Procs : HoldsLock(p) => (InLoad(p) \/ InSave(p)))
    /\ [][\A p \in Procs :
            ((InLoad(p) \/ InSave(p)) /\ pc'[p] = "idle")
            => (~HoldsLock(p)' /\ ret'[p].op \in {"LoadAccounts", "SaveAccounts"})]_vars
    /\ [](\A p \in Procs :
            WaitingForLock(p) => \E q \in Procs \ {p} : HoldsLock(q) /\ (InLoad(q) \/ InSave(q)))
    /\ \A p \in Procs : []<>~HoldsLock(p)

\* A save whose write failed midway has returned its error, and another
\* process has acquired the lock after it.
C22_Witness ==
    /\ torn
    /\ ret[1].op = "SaveAccounts"
    /\ ret[1].err = ErrIO
    /\ ~HoldsLock(1)
    /\ wlock = {2}

\* The accounts file holds an entry with this email.
InFile(email) ==
    /\ file \notin {NoFile, Malformed, Truncated}
    /\ IndexOf(Unmarshal(file).Accounts, email) # 0

\* C23: when runLogout has loaded a store with accounts and has returned, the
\* account GetActiveAccount gave on the loaded store is no longer in the
\* accounts file, whatever the Active marker was; and config.yml is not
\* cleared by a logout that leaves that account in the file.
C23_LogoutRemovesActive ==
    \A p \in Procs :
        (/\ cmd[p].name = "logout"
         /\ cmd[p].phase = "done"
         /\ cmd[p].active # "")
        => ~InFile(cmd[p].active)

\* What holds: a logout that found Active naming an entry and whose
\* SaveAccounts wrote the file leaves no entry with that email in the file.
LogoutRemovesNamedActive ==
    \A p \in Procs :
        (/\ cmd[p].name = "logout"
         /\ cmd[p].phase = "done"
         /\ cmd[p].saving
         /\ written = mem[p]
         /\ ~torn)
        => (cmd[p].email = cmd[p].active /\ ~InFile(cmd[p].active))

\* A logout on a store whose Active is empty has cleared config.yml and
\* returned nil, and the account that was in effect is still in the file.
LogoutLeavesAccount ==
    /\ cmd[1].name = "logout"
    /\ cmd[1].phase = "done"
    /\ cmd[1].err = ""
    /\ cmd[1].email = ""
    /\ ~cmd[1].saving
    /\ config = Cleared
    /\ InFile(cmd[1].active)
    /\ file = file0

====
